---- MODULE Spec2Model ----
(***************************************************************************)
(* UART -> DMA -> ring buffer -> SysTick drain -> UART echo (src/main.c).  *)
(*                                                                         *)
(* The DMA channel (producer) stores each received byte at the next offset *)
(* of ring_buffer and wraps at RING_BUFFER_SIZE.  SysTick_Handler (the     *)
(* consumer) samples the DMA write offset once, transmits the bytes        *)
(* between its static `start` and the sample with uart_transmit, one byte  *)
(* per loop iteration, and then sets start to the sample.  The DMA runs    *)
(* concurrently with the handler: a DMA store may fall between any two     *)
(* byte reads of the handler.                                              *)
(*                                                                         *)
(* Bytes are identified by their position in the received stream: the k-th *)
(* byte the DMA stores has the value k (k >= 1); 0 is the value of the     *)
(* zero-initialised static array; banner characters are negative.          *)
(***************************************************************************)
EXTENDS Integers, Sequences, FiniteSets

(* Size of the ring buffer.  main.c:58 sets 4096; the model is checked on  *)
(* a small buffer.                                                         *)
RING_BUFFER_SIZE == 4

(* Number of bytes the producer stores in a run of the model. *)
MaxWritten == 9

(* Number of characters of the start-up banner (main.c:190-194). *)
BannerLen == 2

(* Largest number of tick periods that have elapsed without a handler      *)
(* invocation having started for them.                                     *)
MaxOwed == 2

VARIABLES
    ring_buffer,   \* main.c:73   the array, offset -> byte
    transferred,   \* the DMA channel's write offset, read at main.c:132
    written,       \* ghost: number of bytes the DMA has stored so far
    dma_on,        \* main.c:198  the DMA channel is enabled
    systick_on,    \* main.c:201  the SysTick timer is running
    pending,       \* the SysTick exception is pending
    owed,          \* ghost: tick periods elapsed minus handler invocations started
    txSinceTick,   \* ghost: a byte was transmitted since the last tick
    start,         \* main.c:129  static uint32_t start
    stack,         \* active invocations of SysTick_Handler, innermost last
    tx,            \* every byte handed to XMC_UART_CH_Transmit, in order
    main_pc,       \* position of main()
    main_i,        \* banner characters transmitted so far
    last,          \* ghost: the record of the invocation that returned last
    sampled,       \* ghost: value of `written` at the latest sample of the offset
    prevEnd,       \* ghost: the latest sampled offset (-1: none yet)
    fewer,         \* ghost: fewer than N bytes were stored between any two samples
    slack,         \* ghost: fewer than N bytes between a sample and the next drain's last read
    lost           \* ghost: stream positions overrun before they were drained

vars == <<ring_buffer, transferred, written, dma_on, systick_on, pending, owed,
          txSinceTick, start, stack, tx, main_pc, main_i, last, sampled,
          prevEnd, fewer, slack, lost>>

N == RING_BUFFER_SIZE

Offsets == 0 .. (N - 1)

(* Sum of the lengths of a sequence of <<offset, length>> pairs. *)
RECURSIVE TotalLen(_)
TotalLen(cs) == IF cs = << >> THEN 0 ELSE cs[1][2] + TotalLen(Tail(cs))

(* Variants of Calls, each with one slip; used to test the properties. *)
Calls_Swapped(n, s, e) ==
    IF s = e THEN << >>
    ELSE IF s < e THEN << <<s, e - s>> >>
    ELSE << <<0, e>>, <<s, n - s>> >>

Calls_Inclusive(n, s, e) ==
    IF s = e THEN << >>
    ELSE IF s < e THEN << <<s, e - s + 1>> >>
    ELSE << <<s, n - s>>, <<0, e>> >>

Calls_FirstSpanOnly(n, s, e) ==
    IF s = e THEN << >>
    ELSE IF s < e THEN << <<s, e - s>> >>
    ELSE << <<s, n - s>> >>

Calls_NoEqualCheck(n, s, e) ==
    IF s < e THEN << <<s, e - s>> >>
    ELSE << <<s, n - s>>, <<0, e>> >>

Calls_PastEnd(n, s, e) ==
    IF s = e THEN << >>
    ELSE IF s < e THEN << <<s, e - s>> >>
    ELSE << <<s, n - s + 1>>, <<0, e>> >>

(* ---------------------------------------------------------------------- *)
(* SysTick_Handler, lines 135-152: the uart_transmit calls the handler     *)
(* makes for a buffer of n bytes, as <<offset, length>> pairs in call      *)
(* order, when it holds `s` in start and has sampled `e`.  The uint32_t     *)
(* subtractions do not wrap: e > s in the first, and s is an offset sampled *)
(* earlier, below n, in the second.                                         *)
Calls(n, s, e) ==
    IF s = e THEN << >>
    ELSE IF s < e THEN << <<s, e - s>> >>
    ELSE << <<s, n - s>>, <<0, e>> >>

(* Variants of NewStart, each with one slip. *)
NewStart_Stale(s, e) == s
NewStart_OnlyForward(s, e) == IF s < e THEN e ELSE s

NewStart_Resample(s, e) == IF s # e THEN transferred ELSE s
NewStart_Next(s, e) == IF s # e THEN e + 1 ELSE s

(* SysTick_Handler, lines 135 and 155: the value of start on return. *)
NewStart(s, e) == IF s # e THEN e ELSE s

(* The bytes a read of ring_buffer[off] can yield: the stored byte, or any  *)
(* byte when off is outside the array.                                      *)
ReadByte(off) ==
    IF off \in Offsets THEN {ring_buffer[off]} ELSE 0 .. MaxWritten

(* Variant of SelfPreempt: the handler can be entered while it runs. *)
SelfPreempt_Allowed == TRUE

(* The SysTick exception cannot preempt its own handler. *)
SelfPreempt == FALSE

Idle == stack = << >>
Top == stack[Len(stack)]
NoDrain == [valid |-> FALSE]

(* The running invocation still has a byte of the buffer to read. *)
Reading ==
    /\ ~Idle
    /\ Len(Top.out) < TotalLen(Calls(N, start, Top.end))

(* The banner character at index k (1-based). *)
BannerChar(k) == 0 - k

(* Variant of Init: the SysTick timer already runs when main() starts. *)
Init_TickRunning ==
    /\ ring_buffer = [o \in Offsets |-> 0]
    /\ transferred = 0
    /\ written = 0
    /\ dma_on = FALSE
    /\ systick_on = TRUE
    /\ pending = FALSE
    /\ owed = 0
    /\ txSinceTick = FALSE
    /\ start = 0
    /\ stack = << >>
    /\ tx = << >>
    /\ main_pc = "banner"
    /\ main_i = 0
    /\ last = NoDrain
    /\ sampled = 0
    /\ prevEnd = -1
    /\ fewer = TRUE
    /\ slack = TRUE
    /\ lost = {}

(* ---------------------------------------------------------------------- *)
Init ==
    /\ ring_buffer = [o \in Offsets |-> 0]
    /\ transferred = 0
    /\ written = 0
    /\ dma_on = FALSE
    /\ systick_on = FALSE
    /\ pending = FALSE
    /\ owed = 0
    /\ txSinceTick = FALSE
    /\ start = 0
    /\ stack = << >>
    /\ tx = << >>
    /\ main_pc = "banner"
    /\ main_i = 0
    /\ last = NoDrain
    /\ sampled = 0
    /\ prevEnd = -1
    /\ fewer = TRUE
    /\ slack = TRUE
    /\ lost = {}

(* ---------------------------------------------------------------------- *)
(* main()                                                                  *)

(* main.c:190-194 with uart_transmit's loop: one banner character. *)
MainBanner ==
    /\ main_pc = "banner"
    /\ main_i < BannerLen
    /\ tx' = Append(tx, BannerChar(main_i + 1))
    /\ main_i' = main_i + 1
    /\ UNCHANGED <<ring_buffer, transferred, written, dma_on, systick_on,
                   pending, owed, txSinceTick, start, stack, main_pc, last,
                   sampled, prevEnd, fewer, slack, lost>>

(* main.c:198 XMC_DMA_CH_Enable *)
MainEnableDMA ==
    /\ main_pc = "banner"
    /\ main_i = BannerLen
    /\ dma_on' = TRUE
    /\ main_pc' = "systick"
    /\ UNCHANGED <<ring_buffer, transferred, written, systick_on, pending,
                   owed, txSinceTick, start, stack, tx, main_i, last, sampled,
                   prevEnd, fewer, slack, lost>>

(* main.c:201 SysTick_Config, then the empty loop of main.c:203 *)
MainSysTickConfig ==
    /\ main_pc = "systick"
    /\ systick_on' = TRUE
    /\ main_pc' = "loop"
    /\ UNCHANGED <<ring_buffer, transferred, written, dma_on, pending, owed,
                   txSinceTick, start, stack, tx, main_i, last, sampled,
                   prevEnd, fewer, slack, lost>>

(* ---------------------------------------------------------------------- *)
(* Producer: the DMA channel stores one received byte at its write offset  *)
(* and advances the offset, wrapping at the capacity.                      *)
DmaWrite ==
    /\ dma_on
    /\ written < MaxWritten
    /\ ring_buffer' = [ring_buffer EXCEPT ![transferred] = written + 1]
    /\ transferred' = (transferred + 1) % N
    /\ written' = written + 1
    /\ fewer' = (fewer /\ written' - sampled < N)
    /\ slack' = (slack /\ written' - (IF Reading THEN Top.Wp ELSE sampled) < N)
    /\ UNCHANGED <<dma_on, systick_on, pending, owed, txSinceTick, start,
                   stack, tx, main_pc, main_i, last, sampled, prevEnd, lost>>

(* ---------------------------------------------------------------------- *)
(* SysTick_Handler                                                         *)

(* Entry, lines 127-150 up to the first uart_transmit call: the offset is   *)
(* sampled (line 132) and the branch is chosen.                             *)
Enter ==
    LET end == transferred
        cs == Calls(N, start, end)
        L == written - sampled
        frame == [start0 |-> start, end |-> end,
                  call |-> IF cs = << >> THEN 0 ELSE 1,
                  i |-> 0,
                  calls |-> IF cs = << >> THEN << >> ELSE << cs[1] >>,
                  out |-> << >>,
                  Wp |-> sampled, Ws |-> written, Wr |-> written,
                  prevEnd |-> prevEnd]
    IN  /\ stack' = Append(stack, frame)
        /\ sampled' = written
        /\ prevEnd' = end
        /\ lost' = IF L > N THEN lost \cup ((sampled + 1) .. (written - (L % N)))
                   ELSE lost
        /\ UNCHANGED <<ring_buffer, transferred, written, dma_on, systick_on,
                       start, tx, main_pc, main_i, last, fewer, slack>>

(* A tick period elapses.  The exception is taken at once when no handler   *)
(* invocation is active; otherwise it is left pending.                      *)
Tick ==
    /\ systick_on
    /\ ~(Idle /\ pending)
    /\ IF Idle \/ SelfPreempt
       THEN /\ Enter
            /\ UNCHANGED <<pending, owed>>
       ELSE /\ txSinceTick
            /\ owed < MaxOwed
            /\ pending' = TRUE
            /\ owed' = owed + 1
            /\ UNCHANGED <<ring_buffer, transferred, written, dma_on,
                           systick_on, start, stack, tx, main_pc, main_i,
                           last, sampled, prevEnd, fewer, slack, lost>>
    /\ txSinceTick' = FALSE

(* The pending exception is taken when the running invocation has returned. *)
TailChain ==
    /\ Idle
    /\ pending
    /\ pending' = FALSE
    /\ owed' = owed - 1
    /\ Enter
    /\ UNCHANGED txSinceTick

(* Variant of UartTransmitByte: the byte is cleared after it is read. *)
UartTransmitByte_Clear ==
    /\ ~Idle
    /\ Top.call >= 1
    /\ LET f == Top
           data == f.calls[f.call][1] + f.i
           len == f.calls[f.call][2]
       IN  /\ f.i < len
           /\ data \in Offsets
           /\ tx' = Append(tx, ring_buffer[data])
           /\ ring_buffer' = [ring_buffer EXCEPT ![data] = 0]
           /\ stack' = [stack EXCEPT ![Len(stack)] =
                          [f EXCEPT !.i = f.i + 1, !.Wr = written,
                                    !.out = Append(f.out, <<data, ring_buffer[data]>>)]]
    /\ txSinceTick' = TRUE
    /\ UNCHANGED <<transferred, written, dma_on, systick_on,
                   pending, owed, start, main_pc, main_i, last, sampled,
                   prevEnd, fewer, slack, lost>>

(* uart_transmit, lines 105-108: one iteration of the loop. *)
UartTransmitByte ==
    /\ ~Idle
    /\ Top.call >= 1
    /\ LET f == Top
           data == f.calls[f.call][1] + f.i
           len == f.calls[f.call][2]
       IN  /\ f.i < len
           /\ \E b \in ReadByte(data) :
                /\ tx' = Append(tx, b)
                /\ stack' = [stack EXCEPT ![Len(stack)] =
                               [f EXCEPT !.i = f.i + 1, !.Wr = written,
                                         !.out = Append(f.out, <<data, b>>)]]
    /\ txSinceTick' = TRUE
    /\ UNCHANGED <<ring_buffer, transferred, written, dma_on, systick_on,
                   pending, owed, start, main_pc, main_i, last, sampled,
                   prevEnd, fewer, slack, lost>>

(* uart_transmit returns at line 150 and the call of line 151 starts. *)
UartReturn ==
    /\ ~Idle
    /\ Top.call >= 1
    /\ LET f == Top
           cs == Calls(N, start, f.end)
       IN  /\ f.i >= f.calls[f.call][2]
           /\ f.call < Len(cs)
           /\ stack' = [stack EXCEPT ![Len(stack)] =
                          [f EXCEPT !.call = f.call + 1,
                                    !.i = 0,
                                    !.calls = Append(f.calls, cs[f.call + 1])]]
    /\ UNCHANGED <<ring_buffer, transferred, written, dma_on, systick_on,
                   pending, owed, txSinceTick, start, tx, main_pc, main_i,
                   last, sampled, prevEnd, fewer, slack, lost>>

(* Variant of HandlerReturn: the handler does not wait for uart_transmit   *)
(* to finish before it sets start and returns.                             *)
HandlerReturn_Early ==
    /\ ~Idle
    /\ LET f == Top
       IN  /\ start' = NewStart(start, f.end)
           /\ stack' = SubSeq(stack, 1, Len(stack) - 1)
           /\ last' = [valid |-> TRUE, start0 |-> f.start0, end |-> f.end,
                       calls |-> f.calls, out |-> f.out, Wp |-> f.Wp,
                       Ws |-> f.Ws, We |-> written, prevEnd |-> f.prevEnd]
    /\ UNCHANGED <<ring_buffer, transferred, written, dma_on, systick_on,
                   pending, owed, txSinceTick, tx, main_pc, main_i, sampled,
                   prevEnd, fewer, slack, lost>>

(* Lines 155-160: the last uart_transmit call (if any) has returned, start  *)
(* is set and the handler returns.                                          *)
HandlerReturn ==
    /\ ~Idle
    /\ LET f == Top
           cs == Calls(N, start, f.end)
       IN  /\ \/ f.call = 0
              \/ /\ f.call >= 1
                 /\ f.call = Len(cs)
                 /\ f.i >= f.calls[f.call][2]
           /\ start' = NewStart(start, f.end)
           /\ stack' = SubSeq(stack, 1, Len(stack) - 1)
           /\ last' = [valid |-> TRUE, start0 |-> f.start0, end |-> f.end,
                       calls |-> f.calls, out |-> f.out, Wp |-> f.Wp,
                       Ws |-> f.Ws, We |-> written, prevEnd |-> f.prevEnd]
    /\ UNCHANGED <<ring_buffer, transferred, written, dma_on, systick_on,
                   pending, owed, txSinceTick, tx, main_pc, main_i, sampled,
                   prevEnd, fewer, slack, lost>>

Next ==
    \/ MainBanner
    \/ MainEnableDMA
    \/ MainSysTickConfig
    \/ DmaWrite
    \/ Tick
    \/ TailChain
    \/ UartTransmitByte
    \/ UartReturn
    \/ HandlerReturn

Spec == Init /\ [][Next]_vars

(* The processor keeps executing main() and the handler, and the timer     *)
(* keeps ticking; the producer stores a byte only when one is received.    *)
Fairness ==
    /\ WF_vars(MainBanner \/ MainEnableDMA \/ MainSysTickConfig)
    /\ WF_vars(Tick \/ TailChain)
    /\ WF_vars(UartTransmitByte \/ UartReturn \/ HandlerReturn)

FairSpec == Spec /\ Fairness

(* ====================================================================== *)
(* Properties                                                              *)

(* The stream positions a+1 .. b, in order. *)
Positions(a, b) == [k \in 1 .. (b - a) |-> a + k]

(* The bytes, and the offsets, of a sequence of <<offset, byte>> reads. *)
Values(out) == [k \in 1 .. Len(out) |-> out[k][2]]
OffsetsOf(out) == [k \in 1 .. Len(out) |-> out[k][1]]

(* The calls of a sequence of <<offset, length>> calls that carry a byte. *)
NonEmpty(cs) == SelectSeq(cs, LAMBDA c : c[2] > 0)

(* The offsets s, s+1, ..., s+len-1. *)
Run(s, len) == [k \in 1 .. len |-> s + k - 1]

(* The bytes handed to the Sink by the drains: tx without the banner. *)
RingTx == SubSeq(tx, BannerLen + 1, Len(tx))

IsPrefix(a, b) == Len(a) <= Len(b) /\ a = SubSeq(b, 1, Len(a))

(* The invocation that returned last ran with no DMA store between its     *)
(* sample and its return, L bytes after the previous sample.               *)
Quiet == last.valid /\ last.We = last.Ws
LastL == last.Ws - last.Wp

(* C1 as stated, with L <= N: a quiet drain that follows L <= N stored     *)
(* bytes emits exactly these L bytes in write order, in at most two spans, *)
(* split exactly when the L bytes wrap the write offset.                   *)
C1_AsClaimed ==
    (Quiet /\ LastL <= N) =>
        /\ Values(last.out) = Positions(last.Wp, last.Ws)
        /\ TotalLen(last.calls) = LastL
        /\ Len(last.calls) <= 2
        /\ (Len(last.calls) = 2) <=> (last.start0 + LastL >= N)

(* C1 (amended): for every start offset and every L < N bytes stored       *)
(* between two consecutive drains, the drain emits exactly these L bytes,  *)
(* in write order, in at most two spans; it makes two uart_transmit calls  *)
(* exactly when the L bytes take the write offset to or past the end of    *)
(* the buffer, and two calls that carry bytes exactly when they take it    *)
(* past the end.                                                           *)
C1_Drained ==
    (Quiet /\ LastL < N) =>
        /\ Values(last.out) = Positions(last.Wp, last.Ws)
        /\ TotalLen(last.calls) = LastL
        /\ Len(last.calls) <= 2
        /\ (Len(last.calls) = 2) <=> (last.start0 + LastL >= N)
        /\ (Len(NonEmpty(last.calls)) = 2) <=> (last.start0 + LastL > N)
        /\ last.start0 = last.Wp % N

C1_Witness ==
    /\ Quiet
    /\ LastL < N
    /\ last.start0 > 0
    /\ last.start0 + LastL > N
    /\ Len(last.out) = LastL

(* C2 as stated: whenever fewer than N bytes were stored between any two   *)
(* consecutive samples, the bytes handed to the Sink by the drains that    *)
(* have returned are the stream up to the latest sample.                   *)
C2_AsClaimed ==
    (fewer /\ Idle) => RingTx = Positions(0, sampled)

(* C2 (amended): whenever fewer than N bytes were stored between any       *)
(* sample and the last buffer read of the drain that follows the next      *)
(* sample, the bytes handed to the Sink by the drains are a prefix of the  *)
(* stream, and the stream up to the latest sample once the drain returned. *)
C2_Stream ==
    slack =>
        /\ IsPrefix(RingTx, Positions(0, sampled))
        /\ Idle => RingTx = Positions(0, sampled)

C2_Witness ==
    /\ slack
    /\ Idle
    /\ last.valid
    /\ last.We > last.Ws
    /\ Len(NonEmpty(last.calls)) = 2
    /\ Len(RingTx) > N
    /\ RingTx = Positions(0, sampled)

(* The offsets a drain that held s in start and sampled e reads, in order. *)
Expected(s, e) ==
    IF s = e THEN << >>
    ELSE IF s < e THEN Run(s, e - s)
    ELSE Run(s, N - s) \o Run(0, e)

(* C3: a drain that samples end with start > end hands exactly two spans   *)
(* to the Sink, [start, N) and then [0, end), reading these offsets in     *)
(* this order and no other; for N = 8, start = 6, end = 2 these are [6,8)  *)
(* and [0,2), 4 bytes.                                                     *)
C3_WrapSpans ==
    /\ (last.valid /\ last.start0 > last.end) =>
          /\ last.calls = << <<last.start0, N - last.start0>>, <<0, last.end>> >>
          /\ OffsetsOf(last.out) = Run(last.start0, N - last.start0) \o Run(0, last.end)
    /\ (~Idle /\ Top.start0 > Top.end) =>
          IsPrefix(OffsetsOf(Top.out), Run(Top.start0, N - Top.start0) \o Run(0, Top.end))
    /\ Calls(8, 6, 2) = << <<6, 2>>, <<0, 2>> >>
    /\ TotalLen(Calls(8, 6, 2)) = 4

C3_Witness ==
    /\ last.valid
    /\ last.start0 > last.end
    /\ last.end > 0
    /\ Len(last.out) = N - last.start0 + last.end

(* C4: a drain that samples end with start < end hands exactly one span to *)
(* the Sink, [start, end), and reads no other offset; for N = 8,           *)
(* start = 2, end = 6 it is the span [2,6), 4 bytes.                       *)
C4_LinearSpan ==
    /\ (last.valid /\ last.start0 < last.end) =>
          /\ last.calls = << <<last.start0, last.end - last.start0>> >>
          /\ OffsetsOf(last.out) = Run(last.start0, last.end - last.start0)
    /\ (~Idle /\ Top.start0 < Top.end) =>
          IsPrefix(OffsetsOf(Top.out), Run(Top.start0, Top.end - Top.start0))
    /\ Calls(8, 2, 6) = << <<2, 4>> >>

C4_Witness ==
    /\ last.valid
    /\ 0 < last.start0
    /\ last.start0 < last.end
    /\ Len(last.out) = last.end - last.start0
    /\ Len(last.out) >= 2

(* C5: a drain that samples end equal to start makes no Sink call, emits   *)
(* nothing and leaves start unchanged; and of two consecutive drains that  *)
(* sample the same end value the second emits nothing.                     *)
C5_NoNewData ==
    /\ (last.valid /\ last.start0 = last.end) =>
          /\ last.calls = << >>
          /\ last.out = << >>
          /\ start = last.start0
    /\ (last.valid /\ last.prevEnd = last.end) =>
          /\ last.calls = << >>
          /\ last.out = << >>

C5_Witness ==
    /\ last.valid
    /\ last.prevEnd = last.end
    /\ last.end > 0
    /\ last.out = << >>
    /\ RingTx # << >>

(* C6: when a drain has returned, start equals the end value this drain    *)
(* sampled, whichever branch it took, and the next drain starts from it.   *)
C6_StartIsEnd ==
    /\ last.valid => start = last.end
    /\ ~Idle => Top.start0 = (IF Top.prevEnd = -1 THEN 0 ELSE Top.prevEnd)
    /\ last.valid => last.start0 = (IF last.prevEnd = -1 THEN 0 ELSE last.prevEnd)

C6_Witness ==
    /\ last.valid
    /\ last.start0 > last.end
    /\ start = last.end
    /\ ~Idle
    /\ Top.start0 = last.end
    /\ Top.end # Top.start0

(* C7: when exactly N bytes were stored between two consecutive samples,   *)
(* the drain samples end equal to start, emits nothing and leaves start    *)
(* unchanged, as when nothing was stored.                                  *)
C7_FullLap ==
    (last.valid /\ LastL = N) =>
        /\ last.end = last.start0
        /\ last.calls = << >>
        /\ last.out = << >>
        /\ start = last.start0

C7_Witness ==
    /\ last.valid
    /\ LastL = N
    /\ last.start0 > 0
    /\ last.out = << >>

(* C8: when L > N bytes were stored between two consecutive drains, the    *)
(* drain emits exactly the newest L mod N of them, in write order, and the *)
(* older L - (L mod N) are handed to the Sink neither by this drain nor by *)
(* a later one; the drain ends as every other does, with start equal to    *)
(* the sampled end.                                                        *)
C8_OverflowLoss ==
    /\ (Quiet /\ LastL > N) =>
          /\ Values(last.out) = Positions(last.Ws - (LastL % N), last.Ws)
          /\ start = last.end
    /\ ~Idle => \A k \in 1 .. Len(Top.out) : Top.out[k][2] \notin lost
    /\ (Idle /\ last.valid) => \A k \in 1 .. Len(last.out) : last.out[k][2] \notin lost

C8_Witness ==
    /\ Quiet
    /\ LastL > N
    /\ LastL % N >= 2
    /\ Len(NonEmpty(last.calls)) = 2
    /\ Cardinality(lost) = N

(* C9: whatever number of bytes was stored between two drains, a drain     *)
(* emits at most N bytes and reads only offsets in [0, N); for N = 16 and  *)
(* 20 bytes stored before the first drain it emits 4 bytes.                *)
SpansInside(n, cs) == \A k \in 1 .. Len(cs) : cs[k][1] >= 0 /\ cs[k][1] + cs[k][2] <= n

(* The handler's spans for a buffer of 16 bytes: within [0, 16) and at     *)
(* most 16 bytes for every start and end; 4 bytes after 20 stored bytes.   *)
Bounded16 ==
    /\ \A s \in 0 .. 15 : \A e \in 0 .. 15 :
          /\ TotalLen(Calls(16, s, e)) <= 16
          /\ SpansInside(16, Calls(16, s, e))
    /\ TotalLen(Calls(16, 0, 20 % 16)) = 4

C9_Bounded ==
    /\ last.valid =>
          /\ Len(last.out) <= N
          /\ \A k \in 1 .. Len(last.out) : last.out[k][1] \in Offsets
          /\ SpansInside(N, last.calls)
    /\ ~Idle =>
          /\ Len(Top.out) <= N
          /\ \A k \in 1 .. Len(Top.out) : Top.out[k][1] \in Offsets
          /\ SpansInside(N, Top.calls)
    /\ Bounded16

C9_Witness ==
    /\ last.valid
    /\ LastL > N
    /\ Len(last.out) = N - 1
    /\ last.start0 > 0

Emitted(p) == \E k \in 1 .. Len(RingTx) : RingTx[k] = p

(* C11 as stated: with a fair timer tick, every stored byte is eventually  *)
(* handed to the Sink unless N or more bytes were stored between two       *)
(* consecutive samples.                                                    *)
C11_AsClaimed ==
    [](\A p \in 1 .. MaxWritten :
          (written >= p) => <>(Emitted(p) \/ ~fewer))

(* C11 (amended): with a fair timer tick, every stored byte is eventually  *)
(* handed to the Sink unless N or more bytes were stored between a sample  *)
(* and the last buffer read of the drain that follows the next sample.     *)
C11_Eventually ==
    [](\A p \in 1 .. MaxWritten :
          (written >= p) => <>(Emitted(p) \/ ~slack))

C11_Witness ==
    /\ slack
    /\ written = MaxWritten
    /\ RingTx = Positions(0, MaxWritten)
    /\ last.valid
    /\ last.We > last.Ws

(* The number of times stream position p was handed to the Sink. *)
Count(p) == Cardinality({k \in 1 .. Len(RingTx) : RingTx[k] = p})

(* The single sample of a drain decides its calls and the new start. *)
OneSample ==
    /\ ~Idle =>
          /\ Top.end = Top.Ws % N
          /\ IsPrefix(Top.calls, Calls(N, Top.start0, Top.end))
          /\ start = Top.start0
    /\ last.valid =>
          /\ last.end = last.Ws % N
          /\ last.calls = Calls(N, last.start0, last.end)
          /\ start = last.end

(* Under condition `ok`: a running drain has emitted no byte stored after  *)
(* its sample, no byte was emitted twice, no byte stored after the latest  *)
(* sample was emitted, and when the drain has returned every byte stored   *)
(* before its sample was emitted once.                                     *)
AfterSample(ok) ==
    ok =>
        /\ ~Idle => \A k \in 1 .. Len(Top.out) : Top.out[k][2] <= Top.Ws
        /\ \A q \in 1 .. written : Count(q) <= 1
        /\ \A q \in (sampled + 1) .. written : Count(q) = 0
        /\ Idle => \A q \in 1 .. sampled : Count(q) = 1

(* C12 as stated: the drain uses one sample of the write offset; bytes     *)
(* stored after the sample are not emitted by this drain and are emitted   *)
(* exactly once by a later one, given fewer than N bytes between           *)
(* consecutive samples.                                                    *)
C12_AsClaimed == OneSample /\ AfterSample(fewer)

(* C12 (amended): the same, given fewer than N bytes between a sample and  *)
(* the last buffer read of the drain that follows the next sample.         *)
C12_Snapshot == OneSample /\ AfterSample(slack)

C12_Witness ==
    /\ slack
    /\ ~Idle
    /\ ~Reading
    /\ last.valid
    /\ last.We > last.Ws + 1
    /\ Top.Wp = last.Ws
    /\ written > Top.Ws
    /\ \A q \in (last.Ws + 1) .. last.We : Count(q) = 1

(* The state part of C13: a running drain has read a prefix of its         *)
(* offsets, first span first, has not yet changed start, and is in its     *)
(* second call only when the whole first span was handed over; a drain     *)
(* that returned has handed over every byte of every span.                 *)
DrainInOrder ==
    /\ ~Idle =>
          /\ start = Top.start0
          /\ IsPrefix(OffsetsOf(Top.out), Expected(Top.start0, Top.end))
          /\ Top.call = 2 => Len(Top.out) = Top.calls[1][2] + Top.i
          /\ Top.call = 1 => Len(Top.out) = Top.i
    /\ last.valid =>
          /\ OffsetsOf(last.out) = Expected(last.start0, last.end)
          /\ Len(last.out) = TotalLen(Calls(N, last.start0, last.end))

(* The step part of C13: start changes only in the step in which a drain   *)
(* returns, after all its bytes were handed to the Sink; and a byte is     *)
(* read from the buffer and handed to the Sink only by a running drain.    *)
DrainSteps ==
    /\ start' # start =>
          /\ ~Idle
          /\ Len(stack') < Len(stack)
          /\ Len(Top.out) = TotalLen(Calls(N, start, Top.end))
    /\ Len(stack') < Len(stack) =>
          Len(Top.out) = TotalLen(Calls(N, start, Top.end))
    /\ (tx' # tx /\ main_pc # "banner") =>
          /\ ~Idle
          /\ ~Idle'
          /\ Len(Top'.out) = Len(Top.out) + 1

(* C13: within one drain every byte of the first span is handed to the     *)
(* Sink before any byte of the second, start is updated only after all     *)
(* bytes of all spans were handed to the Sink, the drain returns only      *)
(* after that, and no span byte is read after the return.                  *)
C13_Synchronous == []DrainInOrder /\ [][DrainSteps]_vars

C13_Witness ==
    /\ ~Idle
    /\ Top.call = 2
    /\ Top.i = Top.calls[2][2]
    /\ Top.i >= 1
    /\ Top.calls[1][2] >= 2
    /\ start = Top.start0

(* The number of bytes a drain has to read: (end - start) mod N. *)
Unread(f) == (f.end - f.start0 + N) % N

(* The number of bytes stored between the sample of a drain and its latest *)
(* buffer read.                                                            *)
StoredWhileReading(f) == f.Wr - f.Ws

(* Every byte the drain has handed to the Sink is the byte that was stored *)
(* at its stream position: the drain's bytes are the newest Unread(f)      *)
(* bytes stored before the sample, in order.                               *)
ReadAsStored(f) == IsPrefix(Values(f.out), Positions(f.Ws - Unread(f), f.Ws))

(* C14: for every drain, up to its last buffer read and until it returns:  *)
(* if fewer than N - ((end - start) mod N) bytes are stored between the    *)
(* sample of end and the drain's last buffer read, each byte handed to the *)
(* Sink is the byte stored at that stream position (first conjunct); this  *)
(* also holds with exactly that many bytes (second conjunct).              *)
(* C14_Witness is the state of the claim's second half: at least that many *)
(* bytes were stored and the drain has emitted a byte stored after the     *)
(* sample.                                                                 *)
C14_NoOverwrite ==
    /\ (~Idle /\ StoredWhileReading(Top) < N - Unread(Top)) => ReadAsStored(Top)
    /\ (~Idle /\ StoredWhileReading(Top) = N - Unread(Top)) => ReadAsStored(Top)

C14_Witness ==
    /\ ~Idle
    /\ StoredWhileReading(Top) >= N - Unread(Top)
    /\ \E k \in 1 .. Len(Top.out) : Top.out[k][2] > Top.Ws
    /\ ~ReadAsStored(Top)

(* C15: with every sampled write offset in [0, N), start is always in      *)
(* [0, N) and every span handed to the Sink, as (offset, length), has      *)
(* offset + length <= N.                                                   *)
(* The handler's spans and new start for every start and end in [0, N). *)
InRangeN ==
    \A s \in Offsets : \A e \in Offsets :
        /\ SpansInside(N, Calls(N, s, e))
        /\ NewStart(s, e) \in Offsets

C15_InRange ==
    /\ start \in Offsets
    /\ prevEnd \in Offsets \cup {-1}
    /\ ~Idle => (Top.end \in Offsets /\ SpansInside(N, Top.calls))
    /\ last.valid => (last.end \in Offsets /\ SpansInside(N, last.calls))
    /\ InRangeN

C15_Witness ==
    /\ last.valid
    /\ start = N - 1
    /\ last.calls # << >>
    /\ last.calls[Len(last.calls)][1] + last.calls[Len(last.calls)][2] = N - 1
    /\ ~Idle
    /\ Top.calls # << >>
    /\ Top.calls[1] = <<N - 1, 1>>

(* The step part of C16. *)
FrameSteps ==
    /\ (ring_buffer' # ring_buffer \/ transferred' # transferred) =>
          /\ written' = written + 1
          /\ UNCHANGED <<start, stack, tx, last>>
    /\ (stack' # stack \/ tx' # tx \/ start' # start) =>
          UNCHANGED <<ring_buffer, transferred, written>>
    /\ start' # start => Len(stack') < Len(stack)
    /\ (Len(stack') < Len(stack) /\ Top.out = << >>) =>
          UNCHANGED <<ring_buffer, transferred, start, tx>>

(* C16: no step of the handler or of uart_transmit changes a byte of the   *)
(* ring buffer or the write offset; start changes only when a drain        *)
(* returns, never in a producer step; and a drain that emits nothing       *)
(* leaves the buffer, the write offset, start and the Sink as they were.   *)
C16_Frame ==
    /\ [][FrameSteps]_vars
    /\ [](last.valid /\ last.out = << >> => start = last.start0)

C16_Witness ==
    /\ last.valid
    /\ last.out = << >>
    /\ start = last.start0
    /\ start > 0
    /\ written > last.We
    /\ Idle

(* C17: a drain that samples end = 0 with start > 0 takes the wrap branch: *)
(* it hands [start, N) to the Sink, then makes a second uart_transmit call *)
(* of length 0 that reads and emits nothing; it emits N - start bytes and  *)
(* sets start to 0.                                                        *)
C17_EndAtZero ==
    /\ (last.valid /\ last.end = 0 /\ last.start0 > 0) =>
          /\ last.calls = << <<last.start0, N - last.start0>>, <<0, 0>> >>
          /\ OffsetsOf(last.out) = Run(last.start0, N - last.start0)
          /\ Len(last.out) = N - last.start0
          /\ start = 0
    /\ (~Idle /\ Top.end = 0 /\ Top.start0 > 0 /\ Top.call = 2) =>
          /\ Top.i = 0
          /\ Len(Top.out) = N - Top.start0

C17_Witness ==
    /\ last.valid
    /\ last.end = 0
    /\ last.start0 > 0
    /\ Len(last.calls) = 2
    /\ last.calls[2] = <<0, 0>>
    /\ Len(last.out) = N - last.start0

(* The banner: BannerLen characters. *)
Banner == [k \in 1 .. BannerLen |-> BannerChar(k)]

====
